---- MODULE Spec2Model ----
(***************************************************************************)
(* Model of the tool-augmented turn orchestrator of mcp-chat-client:       *)
(* backend/app/agent.py (get_mcp_server_config, MCPAgentBuilder) and the   *)
(* two chat endpoints of backend/app/main.py.                              *)
(*                                                                         *)
(* One turn is modelled: its inputs are fixed in Init, and every await or  *)
(* yield of run_agent / stream_agent is one action.  The completion        *)
(* engine, tool discovery and the ReAct loop are external collaborators:   *)
(* what they return, stream or raise is chosen nondeterministically.       *)
(***************************************************************************)
EXTENDS Integers, Sequences, FiniteSets, TLC

(* ------------------------------ bounds -------------------------------- *)
MaxMcps == 2        \* length of selected_mcps
MaxHist == 2        \* length of conversation_history (assembly behaviours)
MaxEvents == 3      \* chunks / loop events consumed by one streaming turn
MaxTrace == 2       \* messages in the trace returned by the ReAct loop

BoundedSeq(S, n) == UNION {[1..k -> S] : k \in 0..n}

Range(s) == {s[i] : i \in 1..Len(s)}

(* --------------------------- python helpers --------------------------- *)
\* ", ".join(items)
RECURSIVE Join(_, _)
Join(items, sep) ==
    IF Len(items) = 0 THEN ""
    ELSE IF Len(items) = 1 THEN items[1]
    ELSE items[1] \o sep \o Join(Tail(items), sep)

\* json.dumps of a str (the contents used here need no escaping)
Quote(s) == "\"" \o s \o "\""

RECURSIVE QuoteAll(_)
QuoteAll(items) ==
    IF Len(items) = 0 THEN <<>>
    ELSE <<Quote(Head(items))>> \o QuoteAll(Tail(items))

\* json.dumps of a list of str
JsonList(items) == "[" \o Join(QuoteAll(items), ", ") \o "]"

(* A Python value carried by a loop event: its type, its str() form and   *)
(* its json.dumps form ("" when json.dumps raises TypeError).             *)
PyDict == [py |-> "dict", str |-> "{'path': '/tmp'}", json |-> "{\"path\": \"/tmp\"}"]
PyEmptyDict == [py |-> "dict", str |-> "{}", json |-> "{}"]
PySet == [py |-> "set", str |-> "{1}", json |-> ""]
PyStr(s) == [py |-> "str", str |-> s, json |-> Quote(s)]

\* json.dumps(v) succeeds
JsonSerializable(v) == v.py \in {"dict", "str"}

\* str(v)
Str(v) == PyStr(v.str)

X10 == "xxxxxxxxxx"
X100 == X10 \o X10 \o X10 \o X10 \o X10 \o X10 \o X10 \o X10 \o X10 \o X10
X500 == X100 \o X100 \o X100 \o X100 \o X100

OutputLimit == 500

\* s[:n]
Slice(s, n) == IF Len(s) <= n THEN s ELSE SubSeq(s, 1, n)

(* ------------------------------ schemas ------------------------------- *)
MCPType == {"filesystem"}

\* ChatMessage.role is a plain str: any role can reach the assembler
Roles == {"user", "assistant", "system"}
ChatMessages == [role : Roles, content : {"hi", "yo"}]

(* ----------------------- get_mcp_server_config ------------------------ *)
FilesystemPath == "/Users/mohitpaddhariya"

FilesystemServer(filesystem_path) ==
    [command |-> "npx",
     args |-> <<"-y", "@modelcontextprotocol/server-filesystem", filesystem_path>>,
     transport |-> "stdio"]

\* config[key] = value on a dict
DictSet(config, key, value) ==
    [k \in DOMAIN config \cup {key} |-> IF k = key THEN value ELSE config[k]]

EmptyDict == [k \in {} |-> ""]

RECURSIVE ConfigLoop(_, _, _, _)
ConfigLoop(selected, i, filesystem_path, config) ==
    IF i > Len(selected) THEN config
    ELSE ConfigLoop(selected, i + 1, filesystem_path,
             IF selected[i] = "filesystem"
             THEN DictSet(config, "filesystem", FilesystemServer(filesystem_path))
             ELSE config)

\* variant: the loop starts at the second selected identifier
get_mcp_server_config_SkipFirst(selected) ==
    ConfigLoop(selected, 2, FilesystemPath, EmptyDict)

\* variant: the filesystem server is configured whatever was selected
get_mcp_server_config_Always(selected) ==
    DictSet(ConfigLoop(selected, 1, FilesystemPath, EmptyDict),
            "filesystem", FilesystemServer(FilesystemPath))

get_mcp_server_config(selected) == ConfigLoop(selected, 1, FilesystemPath, EmptyDict)

(* --------------------------- _build_messages -------------------------- *)
HumanMessage(c) == [type |-> "human", content |-> c]
AIMessage(c) == [type |-> "ai", content |-> c]
SystemMessage(c) == [type |-> "system", content |-> c]

RECURSIVE HistoryLoop(_, _, _)
HistoryLoop(history, i, messages) ==
    IF i > Len(history) THEN messages
    ELSE HistoryLoop(history, i + 1,
             IF history[i].role = "user"
             THEN Append(messages, HumanMessage(history[i].content))
             ELSE IF history[i].role = "assistant"
             THEN Append(messages, AIMessage(history[i].content))
             ELSE messages)

\* variant: the new message is appended twice
_build_messages_Twice(message, history) ==
    Append(Append(HistoryLoop(history, 1, <<>>), HumanMessage(message)),
           HumanMessage(message))

\* variant: the new message is put before the replayed history
_build_messages_NewFirst(message, history) ==
    <<HumanMessage(message)>> \o HistoryLoop(history, 1, <<>>)

_build_messages(message, history) ==
    Append(HistoryLoop(history, 1, <<>>), HumanMessage(message))

(* -------------------------- _get_system_prompt ------------------------ *)
TooledPrompt(mcps_info, tools_info) ==
    "You currently have access to the following MCP servers: " \o mcps_info \o ". "
    \o "Available tools: " \o tools_info \o ". "
    \o "IMPORTANT: Ignore any previous messages in the conversation history that say you don't have access to tools - "
    \o "your tool access has been updated for this request. You DO have tools available now. "
    \o "You can access the user's local files under /Users/mohitpaddhariya using filesystem tools (e.g., read_file, list_directory). "
    \o "Do not say you cannot access local files; instead, invoke the appropriate tool. "
    \o "Use the tools available to you to help the user with their request."

ToollessPrompt ==
    "You currently do not have access to any external tools or MCP servers. "
    \o "If the user asks you to perform actions that require tools (like reading files, listing directories, etc.), "
    \o "politely explain that no tools are currently selected and suggest they select the appropriate MCP tools from the sidebar."

\* variant: the mode is chosen by the selection alone
_get_system_prompt_BySelection(selected, available_tools) ==
    IF Len(selected) > 0
    THEN TooledPrompt(Join(selected, ", "),
                      IF Len(available_tools) > 0 THEN Join(available_tools, ", ") ELSE "none")
    ELSE ToollessPrompt

\* available_tools = None is modelled as the empty list (both are falsy)
_get_system_prompt(selected, available_tools) ==
    IF Len(selected) > 0 /\ Len(available_tools) > 0
    THEN TooledPrompt(Join(selected, ", "),
                      IF Len(available_tools) > 0 THEN Join(available_tools, ", ") ELSE "none")
    ELSE ToollessPrompt

(* ------------------------- external collaborators --------------------- *)
\* str(e) of an exception raised by the completion engine, discovery or the loop
ErrMsgs == {"boom"}

\* tool lists client.get_tools() can return (possibly none: servers that
\* did not answer contribute nothing)
DiscoveredToolLists == {<<>>, <<"read_file">>, <<"read_file", "write_file">>}

\* event["data"] has no such key
Missing == [py |-> "missing", str |-> "", json |-> ""]

\* event["data"].get(key, default)
DataGet(v, default) == IF v.py = "missing" THEN default ELSE v

PyObject(s) == [py |-> "object", str |-> s, json |-> ""]

\* chunks of llm.astream(messages)
Chunks == {[content |-> ""], [content |-> "Hi"], [content |-> "!"]}

\* events of agent.astream_events(..., version="v2")
LoopEvents ==
    {[event |-> "on_chat_model_stream", content |-> ""],
     [event |-> "on_chat_model_stream", content |-> "Hi"],
     [event |-> "on_tool_start", name |-> "read_file", input |-> PyDict],
     [event |-> "on_tool_start", name |-> "write_file", input |-> PySet],
     [event |-> "on_tool_start", name |-> "write_file", input |-> Missing],
     [event |-> "on_tool_end", name |-> "read_file", output |-> Missing],
     [event |-> "on_tool_end", name |-> "read_file", output |-> PyObject("content='a.txt'")],
     [event |-> "on_tool_end", name |-> "write_file", output |-> PyStr(X500)],
     [event |-> "on_tool_end", name |-> "write_file", output |-> PyStr(X500 \o "yz")],
     [event |-> "on_chain_start"]}

\* messages of result["messages"]; tool_calls = <<>> also stands for a
\* message class without the attribute (both skip the inner loop)
TraceMsgs ==
    {[type |-> "ai", content |-> "", tool_calls |-> <<"read_file">>],
     [type |-> "ai", content |-> "", tool_calls |-> <<"write_file", "read_file">>],
     [type |-> "ai", content |-> "a.txt, b.txt", tool_calls |-> <<>>],
     [type |-> "tool", content |-> "a.txt", tool_calls |-> <<>>]}

\* responses of llm.ainvoke(messages)
Completions == {"4", ""}

\* request bodies of the turn behaviours
UserMessages == {"list files"}
TurnHistories ==
    {<<>>,
     <<[role |-> "user", content |-> "hi"], [role |-> "assistant", content |-> "yo"]>>}

(* ------------------------------- state -------------------------------- *)
VARIABLES
    mode,                  \* "blocking" (POST /chat), "streaming" (POST /chat/stream)
    selected_mcps,         \* request.selected_mcps
    conversation_history,  \* request.conversation_history
    user_message,          \* request.message
    pc,                    \* where the turn is suspended
    call_status,           \* run_agent / stream_agent: pending, running, returned, raised, closed
    mcp_config,            \* local mcp_config
    clients_created,       \* MultiServerMCPClient(mcp_config) constructions
    clients_stopped,       \* releases of a created client by the orchestrator
    discovered,            \* client.get_tools() has returned
    tool_names,            \* local tool_names
    system_prompt,         \* local system_prompt
    prompt_calls,          \* calls of _get_system_prompt in this turn
    messages,              \* local messages
    engine,                \* capability the turn delegated to: none, completion, react
    feed,                  \* chunks / loop events consumed so far
    tools_used,            \* local tools_used
    yielded,               \* events yielded by stream_agent
    sse,                   \* events yielded by event_generator
    result,                \* result["messages"] of agent.ainvoke
    exc,                   \* str(e) of the exception that left run_agent / stream_agent
    peer,                  \* locals of a second, concurrent stream_agent call
    http                   \* response of POST /chat

vars == <<mode, selected_mcps, conversation_history, user_message, pc, call_status,
          mcp_config, clients_created, clients_stopped, discovered, tool_names,
          system_prompt, prompt_calls, messages, engine, feed, tools_used,
          yielded, sse, result, exc, peer, http>>

request == <<mode, selected_mcps, conversation_history, user_message>>

\* the second call before it is started
PeerIdle == [pc |-> "idle", tool_names |-> <<>>, feed |-> <<>>, tools_used |-> <<>>,
             yielded |-> <<>>]

NoResponse == [status |-> 0, response |-> "", tools_used |-> <<>>, detail |-> ""]

Fresh ==
    /\ pc = "start"
    /\ call_status = "pending"
    /\ mcp_config = EmptyDict
    /\ clients_created = 0
    /\ clients_stopped = 0
    /\ discovered = FALSE
    /\ tool_names = <<>>
    /\ system_prompt = ""
    /\ prompt_calls = 0
    /\ messages = <<>>
    /\ engine = "none"
    /\ feed = <<>>
    /\ tools_used = <<>>
    /\ yielded = <<>>
    /\ sse = <<>>
    /\ result = <<>>
    /\ exc = ""
    /\ peer = PeerIdle
    /\ http = NoResponse

Init ==
    /\ mode \in {"blocking", "streaming"}
    /\ selected_mcps \in BoundedSeq(MCPType, MaxMcps)
    /\ conversation_history \in TurnHistories
    /\ user_message \in UserMessages
    /\ Fresh

(* ---------------------- stream_agent: event mapping ------------------- *)
\* variant: a tool name is recorded when the tool ends
RecordTool_OnEnd(used, event) ==
    IF event.event = "on_tool_end" THEN Append(used, event.name) ELSE used

\* variant: a tool name is recorded once
RecordTool_Once(used, event) ==
    IF event.event = "on_tool_start" /\ event.name \notin Range(used)
    THEN Append(used, event.name) ELSE used

\* tools_used.append(tool_name) on a tool start
RecordTool(used, event) ==
    IF event.event = "on_tool_start" THEN Append(used, event.name) ELSE used

\* variant: the input is passed on as it came
ToolInput_Raw(event) == DataGet(event.input, PyEmptyDict)

\* the input carried by a tool_start event: kept when json.dumps accepts
\* it, replaced by str(tool_input) otherwise
ToolInput(event) ==
    LET tool_input == DataGet(event.input, PyEmptyDict)
    IN  IF JsonSerializable(tool_input) THEN tool_input ELSE Str(tool_input)

\* variant: the output is not cut
ToolOutput_NoLimit(event) == Str(DataGet(event.output, PyStr(""))).str

\* str(event["data"].get("output", ""))[:500]
ToolOutput(event) == Slice(Str(DataGet(event.output, PyStr(""))).str, OutputLimit)

\* the events stream_agent yields for one event of the loop (none or one)
MapLoopEvent(event) ==
    IF event.event = "on_chat_model_stream"
    THEN IF event.content # "" THEN <<[type |-> "token", content |-> event.content]>>
         ELSE <<>>
    ELSE IF event.event = "on_tool_start"
    THEN <<[type |-> "tool_start", tool |-> event.name, input |-> ToolInput(event)]>>
    ELSE IF event.event = "on_tool_end"
    THEN <<[type |-> "tool_end", tool |-> event.name, output |-> ToolOutput(event)]>>
    ELSE <<>>

\* variant: a token event for every chunk
MapChunk_NoFilter(chunk) == <<[type |-> "token", content |-> chunk.content]>>

\* the events stream_agent yields for one chunk of the completion stream
MapChunk(chunk) ==
    IF chunk.content # "" THEN <<[type |-> "token", content |-> chunk.content]>> ELSE <<>>

DoneEvent(used) == [type |-> "done", tools_used |-> used]

(* --------------------- chat_stream.event_generator -------------------- *)
\* json.dumps(event)
JsonDumps(ev) ==
    IF ev.type = "token"
    THEN "{\"type\": \"token\", \"content\": " \o Quote(ev.content) \o "}"
    ELSE IF ev.type = "tool_start"
    THEN "{\"type\": \"tool_start\", \"tool\": " \o Quote(ev.tool)
         \o ", \"input\": " \o ev.input.json \o "}"
    ELSE IF ev.type = "tool_end"
    THEN "{\"type\": \"tool_end\", \"tool\": " \o Quote(ev.tool)
         \o ", \"output\": " \o Quote(ev.output) \o "}"
    ELSE IF ev.type = "done"
    THEN "{\"type\": \"done\", \"tools_used\": " \o JsonList(ev.tools_used) \o "}"
    ELSE "{\"type\": \"error\", \"message\": " \o Quote(ev.message) \o "}"

\* the body of the async for: one SSE event per event of stream_agent
EventGeneratorYield(out, evs) ==
    IF Len(evs) = 0 THEN out
    ELSE Append(out, [event |-> evs[1].type, data |-> JsonDumps(evs[1])])

\* variant: the except block only logs
EventGeneratorExcept_LogOnly(out, msg) == out

\* variant: the error event does not carry str(e)
EventGeneratorExcept_NoMessage(out, msg) ==
    Append(out, [event |-> "error", data |-> JsonDumps([type |-> "error", message |-> ""])])

\* except Exception as e: one error event
EventGeneratorExcept(out, msg) ==
    Append(out, [event |-> "error", data |-> JsonDumps([type |-> "error", message |-> msg])])

(* ---------------------- run_agent: result extraction ------------------ *)
\* variant: only the first tool call of a message is recorded
RECURSIVE ExtractToolsUsed_FirstCall(_, _)
ExtractToolsUsed_FirstCall(used, final_messages) ==
    IF Len(final_messages) = 0 THEN used
    ELSE ExtractToolsUsed_FirstCall(
             used \o SubSeq(Head(final_messages).tool_calls, 1,
                            IF Len(Head(final_messages).tool_calls) > 0 THEN 1 ELSE 0),
             Tail(final_messages))

RECURSIVE ExtractToolsUsed(_, _)
ExtractToolsUsed(used, final_messages) ==
    IF Len(final_messages) = 0 THEN used
    ELSE ExtractToolsUsed(used \o Head(final_messages).tool_calls, Tail(final_messages))

ResponseContent(final_messages) ==
    IF Len(final_messages) > 0 THEN final_messages[Len(final_messages)].content
    ELSE "No response generated."

(* -------------------------------- chat -------------------------------- *)
ChatResponse(response, used) ==
    [status |-> 200, response |-> response, tools_used |-> used, detail |-> ""]

HTTPException(msg) ==
    [status |-> 500, response |-> "", tools_used |-> <<>>,
     detail |-> "Agent execution failed: " \o msg]

(* ------------------------- actions: POST /chat ------------------------ *)
\* run_agent up to its first await
RunAgentStart ==
    /\ mode = "blocking" /\ pc = "start"
    /\ call_status' = "running"
    /\ tools_used' = <<>>
    /\ mcp_config' = get_mcp_server_config(selected_mcps)
    /\ IF DOMAIN mcp_config' = {}
       THEN /\ system_prompt' = _get_system_prompt(<<>>, <<>>)
            /\ prompt_calls' = prompt_calls + 1
            /\ messages' = <<SystemMessage(system_prompt')>>
                           \o _build_messages(user_message, conversation_history)
            /\ engine' = "completion"
            /\ pc' = "llm_invoke"
            /\ UNCHANGED clients_created
       ELSE /\ clients_created' = clients_created + 1
            /\ pc' = "get_tools"
            /\ UNCHANGED <<system_prompt, prompt_calls, messages, engine>>
    /\ UNCHANGED <<request, peer, exc, clients_stopped, discovered, tool_names, feed,
                   yielded, sse, result, http>>

\* llm.ainvoke(messages) returns
LlmInvokeReturn(content) ==
    /\ mode = "blocking" /\ pc = "llm_invoke"
    /\ call_status' = "returned"
    /\ http' = ChatResponse(content, <<>>)
    /\ pc' = "done"
    /\ UNCHANGED <<request, peer, exc, mcp_config, clients_created, clients_stopped, discovered,
                   tool_names, system_prompt, prompt_calls, messages, engine, feed,
                   tools_used, yielded, sse, result>>

\* variant: chat answers with what the turn has so far
RunAgentRaise_Partial(at, msg) ==
    /\ mode = "blocking" /\ pc = at
    /\ call_status' = "raised"
    /\ exc' = msg
    /\ http' = ChatResponse(msg, tools_used)
    /\ pc' = "done"
    /\ UNCHANGED <<request, peer, mcp_config, clients_created, clients_stopped, discovered,
                   tool_names, system_prompt, prompt_calls, messages, engine, feed,
                   tools_used, yielded, sse, result>>

\* an await of run_agent raises: chat answers with an HTTPException
RunAgentRaise(at, msg) ==
    /\ mode = "blocking" /\ pc = at
    /\ call_status' = "raised"
    /\ exc' = msg
    /\ http' = HTTPException(msg)
    /\ pc' = "done"
    /\ UNCHANGED <<request, peer, mcp_config, clients_created, clients_stopped, discovered,
                   tool_names, system_prompt, prompt_calls, messages, engine, feed,
                   tools_used, yielded, sse, result>>

LlmInvokeRaise(msg) == RunAgentRaise("llm_invoke", msg)

RunGetToolsRaise(msg) == RunAgentRaise("get_tools", msg)

AgentInvokeRaise(msg) == RunAgentRaise("agent_invoke", msg)

\* variant: the engine is chosen by the discovered tools
RunGetToolsReturn_ByTools(tools) ==
    /\ mode = "blocking" /\ pc = "get_tools"
    /\ discovered' = TRUE
    /\ tool_names' = tools
    /\ system_prompt' = _get_system_prompt(selected_mcps, tool_names')
    /\ prompt_calls' = prompt_calls + 1
    /\ messages' = <<SystemMessage(system_prompt')>>
                   \o _build_messages(user_message, conversation_history)
    /\ engine' = (IF Len(tools) = 0 THEN "completion" ELSE "react")
    /\ pc' = (IF Len(tools) = 0 THEN "llm_invoke" ELSE "agent_invoke")
    /\ UNCHANGED <<request, peer, exc, call_status, mcp_config, clients_created, clients_stopped,
                   feed, tools_used, yielded, sse, result, http>>

\* client.get_tools() returns: agent creation, prompt, messages
RunGetToolsReturn(tools) ==
    /\ mode = "blocking" /\ pc = "get_tools"
    /\ discovered' = TRUE
    /\ tool_names' = tools
    /\ system_prompt' = _get_system_prompt(selected_mcps, tool_names')
    /\ prompt_calls' = prompt_calls + 1
    /\ messages' = <<SystemMessage(system_prompt')>>
                   \o _build_messages(user_message, conversation_history)
    /\ engine' = "react"
    /\ pc' = "agent_invoke"
    /\ UNCHANGED <<request, peer, exc, call_status, mcp_config, clients_created, clients_stopped,
                   feed, tools_used, yielded, sse, result, http>>

\* agent.ainvoke returns its trace: extraction of the result
AgentInvokeReturn(trace) ==
    /\ mode = "blocking" /\ pc = "agent_invoke"
    /\ result' = trace
    /\ tools_used' = ExtractToolsUsed(tools_used, trace)
    /\ call_status' = "returned"
    /\ http' = ChatResponse(ResponseContent(trace), tools_used')
    /\ pc' = "done"
    /\ UNCHANGED <<request, peer, exc, mcp_config, clients_created, clients_stopped, discovered,
                   tool_names, system_prompt, prompt_calls, messages, engine, feed,
                   yielded, sse>>

(* --------------------- actions: POST /chat/stream --------------------- *)
\* event_generator starts iterating stream_agent, which runs to its first await
StreamAgentStart ==
    /\ mode = "streaming" /\ pc = "start"
    /\ call_status' = "running"
    /\ mcp_config' = get_mcp_server_config(selected_mcps)
    /\ IF DOMAIN mcp_config' = {}
       THEN /\ system_prompt' = _get_system_prompt(<<>>, <<>>)
            /\ prompt_calls' = prompt_calls + 1
            /\ messages' = <<SystemMessage(system_prompt')>>
                           \o _build_messages(user_message, conversation_history)
            /\ engine' = "completion"
            /\ pc' = "llm_stream"
            /\ UNCHANGED <<clients_created, tools_used>>
       ELSE /\ tools_used' = <<>>
            /\ clients_created' = clients_created + 1
            /\ pc' = "get_tools"
            /\ UNCHANGED <<system_prompt, prompt_calls, messages, engine>>
    /\ UNCHANGED <<request, peer, exc, clients_stopped, discovered, tool_names, feed,
                   yielded, sse, result, http>>

\* llm.astream delivers a chunk
LlmChunk(chunk) ==
    /\ mode = "streaming" /\ pc = "llm_stream"
    /\ Len(feed) < MaxEvents
    /\ feed' = Append(feed, chunk)
    /\ yielded' = yielded \o MapChunk(chunk)
    /\ sse' = EventGeneratorYield(sse, MapChunk(chunk))
    /\ UNCHANGED <<request, peer, exc, pc, call_status, mcp_config, clients_created,
                   clients_stopped, discovered, tool_names, system_prompt,
                   prompt_calls, messages, engine, tools_used, result, http>>

\* llm.astream ends: done with no tools is yielded; stream_agent stays
\* suspended at that yield
LlmStreamEnd ==
    /\ mode = "streaming" /\ pc = "llm_stream"
    /\ yielded' = Append(yielded, DoneEvent(<<>>))
    /\ sse' = EventGeneratorYield(sse, <<DoneEvent(<<>>)>>)
    /\ pc' = "yield_done"
    /\ UNCHANGED <<request, peer, exc, call_status, mcp_config, clients_created,
                   clients_stopped, discovered, tool_names, system_prompt, prompt_calls,
                   messages, engine, feed, tools_used, result, http>>

\* the consumer asks for the event after done: stream_agent returns and
\* event_generator ends
StreamAgentReturn ==
    /\ mode = "streaming" /\ pc = "yield_done"
    /\ call_status' = "returned"
    /\ pc' = "done"
    /\ UNCHANGED <<request, peer, exc, mcp_config, clients_created, clients_stopped, discovered,
                   tool_names, system_prompt, prompt_calls, messages, engine, feed,
                   tools_used, yielded, sse, result, http>>

\* an await of stream_agent raises: the exception leaves stream_agent and
\* is caught by event_generator
StreamAgentRaise(at, msg) ==
    /\ mode = "streaming" /\ pc = at
    /\ call_status' = "raised"
    /\ exc' = msg
    /\ sse' = EventGeneratorExcept(sse, msg)
    /\ pc' = "done"
    /\ UNCHANGED <<request, peer, mcp_config, clients_created, clients_stopped, discovered,
                   tool_names, system_prompt, prompt_calls, messages, engine, feed,
                   tools_used, yielded, result, http>>

LlmStreamRaise(msg) == StreamAgentRaise("llm_stream", msg)

\* variant: a failed discovery ends the stream as a turn without tools
StreamGetToolsRaise_Degrade(msg) ==
    /\ mode = "streaming" /\ pc = "get_tools"
    /\ yielded' = Append(yielded, DoneEvent(tools_used))
    /\ sse' = EventGeneratorYield(sse, <<DoneEvent(tools_used)>>)
    /\ call_status' = "returned"
    /\ pc' = "done"
    /\ UNCHANGED <<request, peer, exc, mcp_config, clients_created, clients_stopped,
                   discovered, tool_names, system_prompt, prompt_calls, messages, engine,
                   feed, tools_used, result, http>>

StreamGetToolsRaise(msg) == StreamAgentRaise("get_tools", msg)

AgentStreamRaise(msg) == StreamAgentRaise("agent_stream", msg)

\* client.get_tools() returns: agent creation, prompt, messages
StreamGetToolsReturn(tools) ==
    /\ mode = "streaming" /\ pc = "get_tools"
    /\ discovered' = TRUE
    /\ tool_names' = tools
    /\ system_prompt' = _get_system_prompt(selected_mcps, tool_names')
    /\ prompt_calls' = prompt_calls + 1
    /\ messages' = <<SystemMessage(system_prompt')>>
                   \o _build_messages(user_message, conversation_history)
    /\ engine' = "react"
    /\ pc' = "agent_stream"
    /\ UNCHANGED <<request, peer, exc, call_status, mcp_config, clients_created, clients_stopped,
                   feed, tools_used, yielded, sse, result, http>>

\* agent.astream_events delivers an event
AgentEvent(event) ==
    /\ mode = "streaming" /\ pc = "agent_stream"
    /\ Len(feed) < MaxEvents
    /\ feed' = Append(feed, event)
    /\ tools_used' = RecordTool(tools_used, event)
    /\ yielded' = yielded \o MapLoopEvent(event)
    /\ sse' = EventGeneratorYield(sse, MapLoopEvent(event))
    /\ UNCHANGED <<request, peer, exc, pc, call_status, mcp_config, clients_created,
                   clients_stopped, discovered, tool_names, system_prompt,
                   prompt_calls, messages, engine, result, http>>

\* agent.astream_events ends: done with the tools recorded is yielded;
\* stream_agent stays suspended at that yield
AgentStreamEnd ==
    /\ mode = "streaming" /\ pc = "agent_stream"
    /\ yielded' = Append(yielded, DoneEvent(tools_used))
    /\ sse' = EventGeneratorYield(sse, <<DoneEvent(tools_used)>>)
    /\ pc' = "yield_done"
    /\ UNCHANGED <<request, peer, exc, call_status, mcp_config, clients_created,
                   clients_stopped, discovered, tool_names, system_prompt, prompt_calls,
                   messages, engine, feed, tools_used, result, http>>

\* the consumer stops reading: the generators are closed at the point where
\* they are suspended; neither has a finally block or catches the close
ConsumerCancel ==
    /\ mode = "streaming"
    /\ pc \in {"get_tools", "llm_stream", "agent_stream", "yield_done"}
    /\ call_status' = "closed"
    /\ pc' = "cancelled"
    /\ UNCHANGED <<request, peer, exc, mcp_config, clients_created, clients_stopped, discovered,
                   tool_names, system_prompt, prompt_calls, messages, engine, feed,
                   tools_used, yielded, sse, result, http>>

(* ---------------------------- specification --------------------------- *)
Next ==
    \/ RunAgentStart
    \/ \E content \in Completions : LlmInvokeReturn(content)
    \/ \E msg \in ErrMsgs : LlmInvokeRaise(msg)
    \/ \E tools \in DiscoveredToolLists : RunGetToolsReturn(tools)
    \/ \E msg \in ErrMsgs : RunGetToolsRaise(msg)
    \/ \E trace \in BoundedSeq(TraceMsgs, MaxTrace) : AgentInvokeReturn(trace)
    \/ \E msg \in ErrMsgs : AgentInvokeRaise(msg)
    \/ StreamAgentStart
    \/ \E chunk \in Chunks : LlmChunk(chunk)
    \/ LlmStreamEnd
    \/ \E msg \in ErrMsgs : LlmStreamRaise(msg)
    \/ \E tools \in DiscoveredToolLists : StreamGetToolsReturn(tools)
    \/ \E msg \in ErrMsgs : StreamGetToolsRaise(msg)
    \/ \E event \in LoopEvents : AgentEvent(event)
    \/ AgentStreamEnd
    \/ \E msg \in ErrMsgs : AgentStreamRaise(msg)
    \/ StreamAgentReturn
    \/ ConsumerCancel

Spec == Init /\ [][Next]_vars

TypeOK ==
    /\ mode \in {"blocking", "streaming"}
    /\ pc \in {"start", "get_tools", "llm_invoke", "agent_invoke", "llm_stream",
               "agent_stream", "yield_done", "done", "cancelled"}
    /\ call_status \in {"pending", "running", "returned", "raised", "closed"}
    /\ engine \in {"none", "completion", "react"}
    /\ Len(feed) <= MaxEvents
    /\ http.status \in {0, 200, 500}

(* Conversation assembly over every bounded history: the steps of a turn  *)
(* up to the point where the conversation is assembled.                    *)
AssembleMessages == {"list files", "hi"}

AssembleInit ==
    /\ mode \in {"blocking", "streaming"}
    /\ selected_mcps \in BoundedSeq(MCPType, 1)
    /\ conversation_history \in BoundedSeq(ChatMessages, MaxHist)
    /\ user_message \in AssembleMessages
    /\ Fresh

AssembleNext ==
    \/ RunAgentStart
    \/ \E tools \in DiscoveredToolLists : RunGetToolsReturn(tools)
    \/ StreamAgentStart
    \/ \E tools \in DiscoveredToolLists : StreamGetToolsReturn(tools)

SpecAssemble == AssembleInit /\ [][AssembleNext]_vars

(* Two concurrent streaming turns with tools.  Each request builds its own *)
(* MCPAgentBuilder and each stream_agent call has its own locals; the      *)
(* second call is followed through the same steps on its own locals.       *)
MaxPeerEvents == 2  \* loop events consumed by the second call

PeerSelected == <<"filesystem">>

ConcurrentTools == {<<"read_file", "write_file">>}

ConcurrentEvents ==
    {[event |-> "on_chat_model_stream", content |-> "Hi"],
     [event |-> "on_tool_start", name |-> "read_file", input |-> PyDict],
     [event |-> "on_tool_start", name |-> "write_file", input |-> PySet],
     [event |-> "on_tool_end", name |-> "read_file", output |-> Missing]}

turn == <<mode, selected_mcps, conversation_history, user_message, pc, call_status,
          mcp_config, clients_created, clients_stopped, discovered, tool_names,
          system_prompt, prompt_calls, messages, engine, feed, tools_used,
          yielded, sse, result, exc, http>>

\* the second stream_agent call runs to its first await
PeerStreamAgentStart ==
    /\ peer.pc = "idle"
    /\ DOMAIN get_mcp_server_config(PeerSelected) # {}
    /\ peer' = [peer EXCEPT !.pc = "get_tools", !.tools_used = <<>>]
    /\ UNCHANGED turn

\* client.get_tools() of the second call returns
PeerGetToolsReturn(tools) ==
    /\ peer.pc = "get_tools"
    /\ peer' = [peer EXCEPT !.pc = "agent_stream", !.tool_names = tools]
    /\ UNCHANGED turn

\* variant: both calls record their tools in one list
PeerAgentEvent_SharedList(event) ==
    /\ peer.pc = "agent_stream"
    /\ Len(peer.feed) < MaxPeerEvents
    /\ tools_used' = RecordTool(tools_used, event)
    /\ peer' = [peer EXCEPT !.feed = Append(@, event),
                            !.tools_used = RecordTool(tools_used, event),
                            !.yielded = @ \o MapLoopEvent(event)]
    /\ UNCHANGED <<mode, selected_mcps, conversation_history, user_message, pc,
                   call_status, mcp_config, clients_created, clients_stopped,
                   discovered, tool_names, system_prompt, prompt_calls, messages,
                   engine, feed, yielded, sse, result, exc, http>>

\* agent.astream_events of the second call delivers an event
PeerAgentEvent(event) ==
    /\ peer.pc = "agent_stream"
    /\ Len(peer.feed) < MaxPeerEvents
    /\ peer' = [peer EXCEPT !.feed = Append(@, event),
                            !.tools_used = RecordTool(@, event),
                            !.yielded = @ \o MapLoopEvent(event)]
    /\ UNCHANGED turn

\* agent.astream_events of the second call ends
PeerAgentStreamEnd ==
    /\ peer.pc = "agent_stream"
    /\ peer' = [peer EXCEPT !.pc = "done",
                            !.yielded = Append(@, DoneEvent(peer.tools_used))]
    /\ UNCHANGED turn

ConcurrentInit ==
    /\ mode = "streaming"
    /\ selected_mcps = <<"filesystem">>
    /\ conversation_history = <<>>
    /\ user_message \in UserMessages
    /\ Fresh

ConcurrentNext ==
    \/ StreamAgentStart
    \/ \E tools \in ConcurrentTools : StreamGetToolsReturn(tools)
    \/ \E event \in ConcurrentEvents : AgentEvent(event)
    \/ AgentStreamEnd
    \/ StreamAgentReturn
    \/ PeerStreamAgentStart
    \/ \E tools \in ConcurrentTools : PeerGetToolsReturn(tools)
    \/ \E event \in ConcurrentEvents : PeerAgentEvent(event)
    \/ PeerAgentStreamEnd

SpecConcurrent == ConcurrentInit /\ [][ConcurrentNext]_vars

(* ------------------------------ properties ---------------------------- *)
Last(s) == s[Len(s)]

Terminal(e) == e.event \in {"done", "error"}

EndsWith(events, type) == Len(events) > 0 /\ Last(events).type = type

\* the tool names of the tool_start events of a sequence, in order
RECURSIVE ToolStartNames(_)
ToolStartNames(events) ==
    IF Len(events) = 0 THEN <<>>
    ELSE (IF Head(events).type = "tool_start" THEN <<Head(events).tool>> ELSE <<>>)
         \o ToolStartNames(Tail(events))

ErrorData(msg) == "{\"type\": \"error\", \"message\": \"" \o msg \o "\"}"

\* the ChatMessage role a LangChain message class stands for
RoleOf(m) ==
    IF m.type = "human" THEN "user"
    ELSE IF m.type = "ai" THEN "assistant"
    ELSE m.type

ValidHistory(history) ==
    \A i \in 1..Len(history) : history[i].role \in {"user", "assistant"}

\* C1: in a streaming turn a terminal event (done or error) delivered to the
\* consumer is the last event delivered, there is never more than one, and
\* a turn that was not cancelled ends with one: it has been delivered once
\* the turn is over or stream_agent is suspended at its last yield, and not
\* while the engine is still running.
C1_OneTerminalEventLast ==
    mode = "streaming" =>
        /\ \A i \in 1..Len(sse) : Terminal(sse[i]) => i = Len(sse)
        /\ pc \in {"yield_done", "done"} => (Len(sse) > 0 /\ Terminal(Last(sse)))
        /\ pc \in {"start", "get_tools", "llm_stream", "agent_stream"}
               => \A i \in 1..Len(sse) : ~Terminal(sse[i])
        /\ pc = "cancelled" => \A i \in 1..Len(sse) : sse[i].event # "error"

C1_Witness ==
    /\ mode = "streaming" /\ pc = "done" /\ engine = "react"
    /\ Len(sse) = 3 /\ sse[1].event = "token" /\ sse[2].event = "tool_start"
    /\ sse[3].event = "error"

\* C2: when the consumer of a streaming turn with a selected tool server
\* cancels before the done or error event, the client created for the turn
\* has been stopped: stops equal starts at the end of the turn.
C2_CancelStopsSession ==
    (mode = "streaming" /\ pc = "cancelled" /\ clients_created > 0
     /\ ~EndsWith(yielded, "done"))
        => clients_stopped = clients_created

\* C3: a blocking turn with a selected tool server stops the client it
\* created exactly once before it ends, whether the loop returned, tool
\* discovery raised or the loop raised.
C3_BlockingStopsOnce ==
    (mode = "blocking" /\ pc = "done" /\ clients_created > 0)
        => clients_stopped = 1

\* C4 as stated: when an engine raises during a streaming turn, stream_agent
\* itself yields the error event as its last event and no exception leaves it.
C4_StreamCatchesItself ==
    (mode = "streaming" /\ pc = "done")
        => /\ call_status = "returned"
           /\ (exc # "" => EndsWith(yielded, "error"))

\* C4 amended: when an engine raises during a streaming turn, the exception
\* leaves stream_agent, which yields no error event; event_generator catches
\* it and delivers exactly one error event carrying the message, as the last
\* event of the delivered sequence.
C4_GeneratorCatches ==
    (mode = "streaming" /\ exc # "") =>
        /\ call_status = "raised" /\ pc = "done" /\ exc \in ErrMsgs
        /\ \A i \in 1..Len(yielded) : yielded[i].type \notin {"error", "done"}
        /\ Len(sse) = Len(yielded) + 1
        /\ Last(sse) = [event |-> "error", data |-> ErrorData(exc)]
        /\ \A i \in 1..Len(yielded) : sse[i].event = yielded[i].type

C4_Witness ==
    /\ mode = "streaming" /\ call_status = "raised" /\ engine = "completion"
    /\ Len(yielded) = 2 /\ Len(sse) = 3

\* C5: the tools_used of a done event is exactly the sequence of the tool
\* names of the tool_start events yielded before it, duplicates and order kept.
C5_DoneListsToolStarts ==
    (mode = "streaming" /\ EndsWith(yielded, "done"))
        => Last(yielded).tools_used = ToolStartNames(yielded)

C5_Witness ==
    /\ mode = "streaming" /\ EndsWith(yielded, "done")
    /\ Last(yielded).tools_used = <<"write_file", "read_file", "write_file">>

\* C6: every tool name reported by a turn (ChatResponse.tools_used, or the
\* tools_used of done) is one of the tool names discovered for the turn.
C6_ReportedToolsDiscovered ==
    /\ (mode = "blocking" /\ http.status = 200)
           => Range(http.tools_used) \subseteq Range(tool_names)
    /\ (mode = "streaming" /\ EndsWith(yielded, "done"))
           => Range(Last(yielded).tools_used) \subseteq Range(tool_names)

\* C7: a turn with no selected tool server uses the toolless prompt, creates
\* no client, runs the completion engine and never the loop, and reports no
\* tool: tools_used = [] in the blocking response and in the done event.
C7_EmptySelectionIsToolless ==
    (Len(selected_mcps) = 0 /\ pc # "start") =>
        /\ system_prompt = ToollessPrompt /\ prompt_calls = 1
        /\ messages[1] = [type |-> "system", content |-> ToollessPrompt]
        /\ clients_created = 0 /\ ~discovered
        /\ engine = "completion"
        /\ tools_used = <<>>
        /\ \A i \in 1..Len(yielded) : yielded[i].type \in {"token", "done"}
        /\ (mode = "blocking" /\ call_status = "returned")
               => (http.status = 200 /\ http.tools_used = <<>>)
        /\ (mode = "streaming" /\ call_status = "returned")
               => Last(yielded) = [type |-> "done", tools_used |-> <<>>]

C7_Witness ==
    /\ Len(selected_mcps) = 0 /\ mode = "streaming" /\ call_status = "returned"
    /\ Len(conversation_history) = 2 /\ Len(yielded) = 3

\* C8 as stated: a blocking turn whose discovery yields no tools delegates to
\* the completion engine, not to the loop.
C8_EngineByDiscoveredTools ==
    (mode = "blocking" /\ discovered /\ Len(tool_names) = 0) => engine = "completion"

\* C8 amended: the engine of a blocking turn is chosen by whether the resolved
\* server configuration is empty: without a selected server the turn delegates
\* to the completion engine and returns no tools; with one it runs the loop
\* once discovery has returned, also when no tool was discovered.
C8_EngineByServerConfig ==
    mode = "blocking" =>
        /\ engine = "completion" <=> (pc # "start" /\ DOMAIN mcp_config = {})
        /\ engine = "react" <=> discovered
        /\ (engine = "completion" /\ http.status = 200) => http.tools_used = <<>>

C8_Witness ==
    /\ mode = "blocking" /\ discovered /\ Len(tool_names) = 0
    /\ engine = "react" /\ http.status = 200

\* C9: with selected tool servers the system prompt is chosen once, when
\* discovery has returned and not before; it is the tooled prompt naming
\* exactly the discovered tools iff a tool was discovered, else the toolless one.
C9_PromptAfterDiscovery ==
    Len(selected_mcps) > 0 =>
        /\ prompt_calls = (IF discovered THEN 1 ELSE 0)
        /\ ~discovered => system_prompt = ""
        /\ discovered =>
              /\ system_prompt = ToollessPrompt <=> Len(tool_names) = 0
              /\ Len(tool_names) > 0 =>
                     system_prompt = TooledPrompt(Join(selected_mcps, ", "),
                                                  Join(tool_names, ", "))
              /\ messages[1].content = system_prompt

C9_Witness ==
    /\ Len(selected_mcps) = 2 /\ discovered /\ pc = "done"
    /\ tool_names = <<"read_file", "write_file">>

\* C10: for a history of user and assistant messages the assembled
\* conversation is the system prompt, the history in order with role and
\* content kept, and the new message as a user message: len(history) + 2
\* messages, one system message, first.
C10_AssembledConversation ==
    (Len(messages) > 0 /\ ValidHistory(conversation_history)) =>
        /\ Len(messages) = Len(conversation_history) + 2
        /\ messages[1] = [type |-> "system", content |-> system_prompt]
        /\ \A i \in 1..Len(conversation_history) :
              /\ RoleOf(messages[i + 1]) = conversation_history[i].role
              /\ messages[i + 1].content = conversation_history[i].content
        /\ Last(messages) = [type |-> "human", content |-> user_message]
        /\ Cardinality({i \in 1..Len(messages) : messages[i].type = "system"}) = 1

C10_Witness ==
    /\ Len(messages) = 4
    /\ conversation_history = <<[role |-> "assistant", content |-> "yo"],
                                [role |-> "user", content |-> "hi"]>>
    /\ user_message = "hi"

\* C11: the assembler drops no history message: when a conversation has been
\* assembled, every message of the history is in it, whatever its role (a
\* role outside user/assistant would have to stop the turn instead).
C11_NoHistoryMessageDropped ==
    Len(messages) > 0 => Len(messages) = Len(conversation_history) + 2

\* The history a conversation stands for: its messages as ChatMessage values
RECURSIVE AsHistory(_)
AsHistory(msgs) ==
    IF Len(msgs) = 0 THEN <<>>
    ELSE <<[role |-> RoleOf(Head(msgs)), content |-> Head(msgs).content]>>
         \o AsHistory(Tail(msgs))

\* C12: assembling again from the assembled conversation (its messages
\* between the first and the last as history, the content of its last message
\* as new message, the same prompt) gives the same conversation.
C12_ReassemblyIdempotent ==
    Len(messages) > 0 =>
        <<SystemMessage(system_prompt)>>
        \o _build_messages(Last(messages).content,
                           AsHistory(SubSeq(messages, 2, Len(messages) - 1)))
        = messages

C12_Witness ==
    /\ Len(messages) = 3
    /\ conversation_history = <<[role |-> "system", content |-> "hi"],
                                [role |-> "assistant", content |-> "yo"]>>
    /\ user_message = "list files"

\* C13: the resolved configuration has exactly one launch spec per distinct
\* selected identifier, the fixed spec of that identifier; every other
\* selection with the same identifiers (reordered, repeated) resolves to the
\* same configuration, and the empty selection to the empty mapping.
C13_ResolverOnePerIdentifier ==
    pc # "start" =>
        /\ DOMAIN mcp_config = Range(selected_mcps)
        /\ \A k \in DOMAIN mcp_config :
               mcp_config[k] = [command |-> "npx",
                                args |-> <<"-y", "@modelcontextprotocol/server-filesystem",
                                           "/Users/mohitpaddhariya">>,
                                transport |-> "stdio"]
        /\ \A other \in BoundedSeq(MCPType, MaxMcps + 1) :
               Range(other) = Range(selected_mcps)
                   => get_mcp_server_config(other) = mcp_config
        /\ Len(selected_mcps) = 0 => mcp_config = EmptyDict

C13_Witness ==
    /\ pc # "start" /\ selected_mcps = <<"filesystem", "filesystem">>
    /\ DOMAIN mcp_config = {"filesystem"}

\* the tool-call names of a trace, message by message and call by call
RECURSIVE TraceCallNames(_)
TraceCallNames(trace) ==
    IF Len(trace) = 0 THEN <<>>
    ELSE TraceCallNames(SubSeq(trace, 1, Len(trace) - 1)) \o Last(trace).tool_calls

LoopTurnReturned == mode = "blocking" /\ engine = "react" /\ call_status = "returned"

\* C14: a blocking turn that ran the loop returns the tool-call names of the
\* trace in trace order, duplicates kept, and the content of the last message
\* of the trace as response.
C14_ResultFromTrace ==
    LoopTurnReturned =>
        /\ http.status = 200
        /\ http.tools_used = TraceCallNames(result)
        /\ Len(result) > 0 => http.response = Last(result).content

C14_Witness ==
    /\ LoopTurnReturned
    /\ http.tools_used = <<"read_file", "write_file", "read_file">>
    /\ Len(result) = 2

\* C15: a blocking turn that ran the loop and whose trace is empty or does
\* not end with an assistant message returns normally with the fallback text.
C15_FallbackWithoutAssistantMessage ==
    (LoopTurnReturned /\ (Len(result) = 0 \/ Last(result).type # "ai"))
        => (http.status = 200 /\ http.response = "No response generated.")

\* what a consumer sees of a yielded event: its type and its tool or content
Seen(ev) ==
    <<ev.type, IF ev.type = "token" THEN ev.content
               ELSE IF ev.type \in {"tool_start", "tool_end"} THEN ev.tool
               ELSE "">>

RECURSIVE SeenAll(_)
SeenAll(events) ==
    IF Len(events) = 0 THEN <<>> ELSE <<Seen(Head(events))>> \o SeenAll(Tail(events))

\* the order-preserving image of the loop's feed: one entry for each token
\* event with content, tool start and tool end; nothing for any other event
RECURSIVE FeedImage(_)
FeedImage(events) ==
    IF Len(events) = 0 THEN <<>>
    ELSE (IF Head(events).event = "on_chat_model_stream"
          THEN (IF Head(events).content # "" THEN <<<<"token", Head(events).content>>>>
                ELSE <<>>)
          ELSE IF Head(events).event = "on_tool_start"
          THEN <<<<"tool_start", Head(events).name>>>>
          ELSE IF Head(events).event = "on_tool_end"
          THEN <<<<"tool_end", Head(events).name>>>>
          ELSE <<>>)
         \o FeedImage(Tail(events))

\* the names of the tool starts of a feed, in the order they were observed
RECURSIVE FeedStartNames(_)
FeedStartNames(events) ==
    IF Len(events) = 0 THEN <<>>
    ELSE (IF Head(events).event = "on_tool_start" THEN <<Head(events).name>> ELSE <<>>)
         \o FeedStartNames(Tail(events))

\* C16: in a streaming turn with tools the yielded token, tool_start and
\* tool_end events are the image of the loop's feed in feed order, done comes
\* last, and tools_used lists the tools in the order their starts were
\* observed, whatever the order of their ends.
C16_StreamFollowsFeed ==
    (mode = "streaming" /\ engine = "react") =>
        /\ tools_used = FeedStartNames(feed)
        /\ SeenAll(yielded) \in {FeedImage(feed), FeedImage(feed) \o <<<<"done", "">>>>}
        /\ (pc = "agent_stream" \/ call_status = "raised")
               => SeenAll(yielded) = FeedImage(feed)
        /\ (pc = "yield_done" \/ call_status = "returned")
               => SeenAll(yielded) = FeedImage(feed) \o <<<<"done", "">>>>
        /\ EndsWith(yielded, "done") => Last(yielded).tools_used = FeedStartNames(feed)

C16_Witness ==
    /\ mode = "streaming" /\ engine = "react" /\ call_status = "returned"
    /\ Len(feed) = 3
    /\ feed[1].event = "on_tool_start" /\ feed[1].name = "read_file"
    /\ feed[2].event = "on_tool_start" /\ feed[2].name = "write_file"
    /\ feed[3].event = "on_tool_end" /\ feed[3].name = "write_file"
    /\ Last(yielded).tools_used = <<"read_file", "write_file">>

\* tool discovery of a turn with selected servers failed: the turn is over
\* and get_tools never returned
DiscoveryFailed == clients_created > 0 /\ pc = "done" /\ ~discovered

\* C17: a turn whose tool discovery fails is not failed: it ends with a normal
\* result, a 200 response or a stream ending in done.
C17_DiscoveryFailureDegrades ==
    DiscoveryFailed =>
        /\ mode = "blocking" => http.status = 200
        /\ mode = "streaming" => (Len(sse) > 0 /\ Last(sse).event = "done")

\* C18: when an engine raises during a blocking turn the caller gets the
\* server-error response and nothing else: status 500 with the message, no
\* response text and no tools list; a 200 response is only given by a turn in
\* which nothing raised, and a response once given is not replaced.
C18_BlockingFailureIs500 ==
    mode = "blocking" =>
        /\ exc # "" =>
               /\ call_status = "raised" /\ pc = "done"
               /\ http = [status |-> 500, response |-> "", tools_used |-> <<>>,
                          detail |-> "Agent execution failed: " \o exc]
        /\ http.status = 200 => (exc = "" /\ call_status = "returned")
        /\ http.status # 0 <=> pc = "done"

C18_Witness ==
    /\ mode = "blocking" /\ exc = "boom" /\ engine = "react" /\ http.status = 500
    /\ Len(tool_names) = 2

\* C19: of two concurrent streaming turns, each one's recorded tools and
\* yielded events are those of its own feed alone, in every interleaving: a
\* tool started in one turn is never in the other's tools_used.
C19_ConcurrentTurnsIndependent ==
    /\ tools_used = FeedStartNames(feed)
    /\ peer.tools_used = FeedStartNames(peer.feed)
    /\ SeenAll(yielded) = FeedImage(feed)
                          \o (IF pc \in {"yield_done", "done"} THEN <<<<"done", "">>>>
                              ELSE <<>>)
    /\ SeenAll(peer.yielded) = FeedImage(peer.feed)
                               \o (IF peer.pc = "done" THEN <<<<"done", "">>>> ELSE <<>>)
    /\ pc \in {"yield_done", "done"} => Last(yielded).tools_used = FeedStartNames(feed)
    /\ peer.pc = "done" => Last(peer.yielded).tools_used = FeedStartNames(peer.feed)

C19_Witness ==
    /\ pc = "done" /\ peer.pc = "done"
    /\ Last(yielded).tools_used = <<"read_file", "read_file">>
    /\ Last(peer.yielded).tools_used = <<"write_file">>
    /\ Len(peer.feed) = 2

\* one token event for each chunk with content, in chunk order
RECURSIVE ChunkTokens(_)
ChunkTokens(chunks) ==
    IF Len(chunks) = 0 THEN <<>>
    ELSE (IF Head(chunks).content = "" THEN <<>>
          ELSE <<[type |-> "token", content |-> Head(chunks).content]>>)
         \o ChunkTokens(Tail(chunks))

\* C20: a streaming turn without selected servers whose completion stream
\* ends yields one token event for each chunk with content, in chunk order,
\* none for an empty chunk, and then one done event with tools_used = [].
C20_ToollessStream ==
    (mode = "streaming" /\ engine = "completion") =>
        /\ (pc = "yield_done" \/ call_status = "returned") =>
               yielded = ChunkTokens(feed) \o <<[type |-> "done", tools_used |-> <<>>]>>
        /\ (pc = "llm_stream" \/ call_status = "raised") => yielded = ChunkTokens(feed)
        /\ pc = "cancelled" =>
               yielded \in {ChunkTokens(feed),
                            ChunkTokens(feed) \o <<[type |-> "done", tools_used |-> <<>>]>>}

C20_Witness ==
    /\ mode = "streaming" /\ engine = "completion" /\ call_status = "returned"
    /\ feed = <<[content |-> "Hi"], [content |-> ""], [content |-> "!"]>>
    /\ Len(yielded) = 3

IsToolStart(event) == event.event = "on_tool_start"

IsToolEnd(event) == event.event = "on_tool_end"

IsStartEvent(ev) == ev.type = "tool_start"

IsEndEvent(ev) == ev.type = "tool_end"

IsStartSse(ev) == ev.event = "tool_start"

\* what a tool_start event may carry for a loop input: the input itself when
\* it has a JSON form, an empty dict when the loop gave none, and otherwise
\* the str of its string form
CarriedInput(v) ==
    IF v.py = "missing" THEN [py |-> "dict", str |-> "{}", json |-> "{}"]
    ELSE IF v.json # "" THEN v
    ELSE [py |-> "str", str |-> v.str, json |-> "\"" \o v.str \o "\""]

\* C21: in a streaming turn with tools, the k-th tool start of the loop's feed
\* gives the k-th tool_start event, yielded and delivered, and the k-th
\* recorded tool name, whether or not its input has a JSON form; an input
\* without one is carried as its string form, the delivered payload is JSON,
\* and the only error a turn delivers is the one an engine raised.
C21_ToolStartAlwaysEmitted ==
    (mode = "streaming" /\ engine = "react") =>
        LET starts == SelectSeq(feed, IsToolStart)
            emitted == SelectSeq(yielded, IsStartEvent)
            sent == SelectSeq(sse, IsStartSse)
        IN  /\ Len(emitted) = Len(starts)
            /\ Len(sent) = Len(starts)
            /\ Len(tools_used) = Len(starts)
            /\ \A k \in 1..Len(starts) :
                   /\ tools_used[k] = starts[k].name
                   /\ emitted[k].tool = starts[k].name
                   /\ emitted[k].input = CarriedInput(starts[k].input)
                   /\ emitted[k].input.json # ""
                   /\ sent[k].data = "{\"type\": \"tool_start\", \"tool\": \""
                                     \o starts[k].name \o "\", \"input\": "
                                     \o CarriedInput(starts[k].input).json \o "}"
            /\ \A i \in 1..Len(sse) :
                   sse[i].event = "error" =>
                       (i = Len(sse) /\ call_status = "raised" /\ exc \in ErrMsgs)

C21_Witness ==
    /\ mode = "streaming" /\ engine = "react" /\ call_status = "returned"
    /\ feed = <<[event |-> "on_tool_start", name |-> "write_file", input |-> PySet],
                [event |-> "on_tool_start", name |-> "write_file", input |-> Missing],
                [event |-> "on_tool_start", name |-> "read_file", input |-> PyDict]>>
    /\ yielded[1].input = [py |-> "str", str |-> "{1}", json |-> "\"{1}\""]
    /\ sse[1].data = "{\"type\": \"tool_start\", \"tool\": \"write_file\", \"input\": \"{1}\"}"
    /\ Last(yielded).tools_used = <<"write_file", "write_file", "read_file">>

\* C22: the output of the k-th tool_end event is at most 500 characters long
\* and is a prefix of the string form of the output of the k-th tool end of
\* the feed: the whole of it when that has 500 characters or fewer, its first
\* 500 otherwise, and the empty string when the loop gave no output.
C22_ToolEndOutputBounded ==
    (mode = "streaming" /\ engine = "react") =>
        LET ends == SelectSeq(feed, IsToolEnd)
            emitted == SelectSeq(yielded, IsEndEvent)
        IN  /\ Len(emitted) = Len(ends)
            /\ \A k \in 1..Len(ends) :
                   LET full == IF ends[k].output.py = "missing" THEN ""
                               ELSE ends[k].output.str
                       out == emitted[k].output
                   IN  /\ emitted[k].tool = ends[k].name
                       /\ Len(out) <= 500
                       /\ Len(out) <= Len(full)
                       /\ out = SubSeq(full, 1, Len(out))
                       /\ Len(full) <= 500 => out = full
                       /\ Len(full) > 500 => Len(out) = 500
                       /\ ends[k].output.py = "missing" => out = ""

C22_Witness ==
    /\ mode = "streaming" /\ engine = "react"
    /\ Len(feed) = 3
    /\ feed[1] = [event |-> "on_tool_end", name |-> "write_file",
                  output |-> PyStr(X500 \o "yz")]
    /\ feed[2] = [event |-> "on_tool_end", name |-> "write_file", output |-> PyStr(X500)]
    /\ feed[3] = [event |-> "on_tool_end", name |-> "read_file", output |-> Missing]
    /\ Len(yielded) = 3
    /\ yielded[1].output = X500 /\ yielded[2].output = X500 /\ yielded[3].output = ""

\* C24: a streaming turn with a selected server yields nothing while tool
\* discovery has not returned, and delivers nothing but the error of a failed
\* discovery: when get_tools raises, the consumer receives exactly one event,
\* the error event with the message, and no token, tool_start, tool_end or
\* done event.
C24_NothingBeforeDiscovery ==
    (mode = "streaming" /\ clients_created > 0 /\ ~discovered) =>
        /\ yielded = <<>>
        /\ feed = <<>>
        /\ pc \in {"get_tools", "cancelled"} => sse = <<>>
        /\ pc = "done" =>
               /\ call_status = "raised" /\ exc \in ErrMsgs
               /\ sse = <<[event |-> "error", data |-> ErrorData(exc)]>>

C24_Witness ==
    /\ mode = "streaming" /\ Len(selected_mcps) > 0
    /\ DiscoveryFailed
    /\ exc = "boom"
    /\ Len(sse) = 1 /\ sse[1].event = "error"

====
